---------------------------- MODULE Spec2Model ----------------------------
(* Shape-level model of src/UNet.py: the U-Net graph built by UNet.__init__ *)
(* and the forward pass UNet.forward, one block application per step.      *)
(* A tensor is its shape [n, c, h, w]; an operator of the tensor library   *)
(* that raises is modelled by the value [err |-> kind], which every later  *)
(* operator passes on unchanged (the exception propagates to the caller).  *)
EXTENDS Integers, Sequences, FiniteSets

(* ------------------------------ bounds ------------------------------ *)
MaxInChannels == 2
MaxClasses == 2
MaxBaseC == 2
MaxBatch == 2
MaxH == 33
MaxW == 20
MaxDeep == 3
MaxSkip == 7

VARIABLES net, training, pc, xin, x1, x2, x3, x4, x5, x, logits, err, trace,
          uplog, poollog

vars == <<net, training, pc, xin, x1, x2, x3, x4, x5, x, logits, err, trace,
          uplog, poollog>>

(* ------------------------- values and helpers ------------------------ *)
None == [none |-> TRUE]
Err(kind) == [err |-> kind]
IsErr(t) == "err" \in DOMAIN t
IsTensor(t) == "h" \in DOMAIN t
Tensor(n, c, h, w) == [n |-> n, c |-> c, h |-> h, w |-> w]

(* Python's a // b for b > 0: the floor of the quotient *)
FloorDiv(a, b) == a \div b

(* --------------------------- construction ---------------------------- *)
Conv2d(in_channels, out_channels, kernel_size, padding, bias) ==
    [in_channels |-> in_channels, out_channels |-> out_channels,
     kernel_size |-> kernel_size, padding |-> padding, stride |-> 1,
     bias |-> bias]

BatchNorm2d(num_features) == [num_features |-> num_features]

(* variant: the second convolution is built from out_channels, ignoring *)
(* mid_channels                                                         *)
DoubleConvIgnoresMid(in_channels, out_channels, mid) ==
    LET mid_channels == IF mid = <<>> THEN out_channels ELSE mid[1]
    IN  [conv1 |-> Conv2d(in_channels, mid_channels, 3, 1, FALSE),
         bn1   |-> BatchNorm2d(mid_channels),
         conv2 |-> Conv2d(out_channels, out_channels, 3, 1, FALSE),
         bn2   |-> BatchNorm2d(out_channels)]

(* mid is <<>> for mid_channels=None and <<m>> for mid_channels=m *)
DoubleConv(in_channels, out_channels, mid) ==
    LET mid_channels == IF mid = <<>> THEN out_channels ELSE mid[1]
    IN  [conv1 |-> Conv2d(in_channels, mid_channels, 3, 1, FALSE),
         bn1   |-> BatchNorm2d(mid_channels),
         conv2 |-> Conv2d(mid_channels, out_channels, 3, 1, FALSE),
         bn2   |-> BatchNorm2d(out_channels)]

MaxPool2d(kernel_size, stride) == [kernel_size |-> kernel_size, stride |-> stride]

Down(in_channels, out_channels) ==
    [pool |-> MaxPool2d(2, 2),
     conv |-> DoubleConv(in_channels, out_channels, <<>>)]

Upsample(scale_factor) == [kind |-> "Upsample", scale_factor |-> scale_factor]

ConvTranspose2d(in_channels, out_channels, kernel_size, stride) ==
    [kind |-> "ConvTranspose2d", in_channels |-> in_channels,
     out_channels |-> out_channels, kernel_size |-> kernel_size,
     stride |-> stride]

(* variant: the transposed convolution keeps the channel count *)
UpKeepsChannels(in_channels, out_channels, bilinear) ==
    IF bilinear
    THEN [up   |-> Upsample(2),
          conv |-> DoubleConv(in_channels, out_channels,
                              <<FloorDiv(in_channels, 2)>>)]
    ELSE [up   |-> ConvTranspose2d(in_channels, in_channels, 2, 2),
          conv |-> DoubleConv(in_channels, out_channels, <<>>)]

Up(in_channels, out_channels, bilinear) ==
    IF bilinear
    THEN [up   |-> Upsample(2),
          conv |-> DoubleConv(in_channels, out_channels,
                              <<FloorDiv(in_channels, 2)>>)]
    ELSE [up   |-> ConvTranspose2d(in_channels, FloorDiv(in_channels, 2), 2, 2),
          conv |-> DoubleConv(in_channels, out_channels, <<>>)]

OutConv(in_channels, num_classes) ==
    [conv |-> Conv2d(in_channels, num_classes, 1, 0, TRUE)]

(* variant: the channel-reduction factor is applied to the wrong strategy *)
UNetFactorSwapped(in_channels, num_classes, bilinear, base_c) ==
    LET factor == IF bilinear THEN 1 ELSE 2
    IN  [in_channels |-> in_channels,
         num_classes |-> num_classes,
         bilinear    |-> bilinear,
         base_c      |-> base_c,
         in_conv  |-> DoubleConv(in_channels, base_c, <<>>),
         down1    |-> Down(base_c, base_c * 2),
         down2    |-> Down(base_c * 2, base_c * 4),
         down3    |-> Down(base_c * 4, base_c * 8),
         down4    |-> Down(base_c * 8, FloorDiv(base_c * 16, factor)),
         up1      |-> Up(base_c * 16, FloorDiv(base_c * 8, factor), bilinear),
         up2      |-> Up(base_c * 8, FloorDiv(base_c * 4, factor), bilinear),
         up3      |-> Up(base_c * 4, FloorDiv(base_c * 2, factor), bilinear),
         up4      |-> Up(base_c * 2, base_c, bilinear),
         out_conv |-> OutConv(base_c, num_classes)]

UNet(in_channels, num_classes, bilinear, base_c) ==
    LET factor == IF bilinear THEN 2 ELSE 1
    IN  [in_channels |-> in_channels,
         num_classes |-> num_classes,
         bilinear    |-> bilinear,
         base_c      |-> base_c,
         in_conv  |-> DoubleConv(in_channels, base_c, <<>>),
         down1    |-> Down(base_c, base_c * 2),
         down2    |-> Down(base_c * 2, base_c * 4),
         down3    |-> Down(base_c * 4, base_c * 8),
         down4    |-> Down(base_c * 8, FloorDiv(base_c * 16, factor)),
         up1      |-> Up(base_c * 16, FloorDiv(base_c * 8, factor), bilinear),
         up2      |-> Up(base_c * 8, FloorDiv(base_c * 4, factor), bilinear),
         up3      |-> Up(base_c * 4, FloorDiv(base_c * 2, factor), bilinear),
         up4      |-> Up(base_c * 2, base_c, bilinear),
         out_conv |-> OutConv(base_c, num_classes)]

(* ----------------------- learnable parameters ------------------------ *)
Conv2dParams(conv) ==
    conv.in_channels * conv.out_channels * conv.kernel_size * conv.kernel_size
    + (IF conv.bias THEN conv.out_channels ELSE 0)

BatchNorm2dParams(bn) == 2 * bn.num_features

DoubleConvParams(dc) ==
    Conv2dParams(dc.conv1) + BatchNorm2dParams(dc.bn1)
    + Conv2dParams(dc.conv2) + BatchNorm2dParams(dc.bn2)

UpLayerParams(up) ==
    IF up.kind = "Upsample"
    THEN 0
    ELSE up.in_channels * up.out_channels * up.kernel_size * up.kernel_size
         + up.out_channels

UpParams(u) == UpLayerParams(u.up) + DoubleConvParams(u.conv)

UNetParams(m) ==
    DoubleConvParams(m.in_conv)
    + DoubleConvParams(m.down1.conv) + DoubleConvParams(m.down2.conv)
    + DoubleConvParams(m.down3.conv) + DoubleConvParams(m.down4.conv)
    + UpParams(m.up1) + UpParams(m.up2) + UpParams(m.up3) + UpParams(m.up4)
    + Conv2dParams(m.out_conv.conv)

(* ------------------------- forward: layers --------------------------- *)
(* variant: the convolution does not pad *)
ConvOutputSizeNoPad(size, conv) ==
    FloorDiv(size - conv.kernel_size, conv.stride) + 1

ConvOutputSize(size, conv) ==
    FloorDiv(size + 2 * conv.padding - conv.kernel_size, conv.stride) + 1

Conv2dFwd(conv, t) ==
    IF IsErr(t) THEN t
    ELSE IF t.c # conv.in_channels THEN Err("channels")
    ELSE Tensor(t.n, conv.out_channels,
                ConvOutputSize(t.h, conv), ConvOutputSize(t.w, conv))

(* in training mode batch statistics need more than one value per channel *)
BatchNorm2dFwd(bn, t, train) ==
    IF IsErr(t) THEN t
    ELSE IF t.c # bn.num_features THEN Err("channels")
    ELSE IF train /\ t.n * t.h * t.w = 1 THEN Err("batch_norm")
    ELSE t

ReLU(t) == t

DoubleConvFwd(dc, t, train) ==
    LET a == ReLU(BatchNorm2dFwd(dc.bn1, Conv2dFwd(dc.conv1, t), train))
    IN  ReLU(BatchNorm2dFwd(dc.bn2, Conv2dFwd(dc.conv2, a), train))

(* variant: pooling in ceil mode *)
PoolOutputSizeCeil(size, pool) ==
    FloorDiv(size - pool.kernel_size + pool.stride - 1, pool.stride) + 1

(* floor((size - kernel) / stride) + 1: no padding, no ceil mode *)
PoolOutputSize(size, pool) == FloorDiv(size - pool.kernel_size, pool.stride) + 1

(* variant: pooling lets an empty output through *)
MaxPool2dFwdNoCheck(pool, t) ==
    IF IsErr(t) THEN t
    ELSE Tensor(t.n, t.c, PoolOutputSize(t.h, pool), PoolOutputSize(t.w, pool))

(* the pooling operator rejects a calculated output size below 1 *)
MaxPool2dFwd(pool, t) ==
    IF IsErr(t) THEN t
    ELSE LET oh == PoolOutputSize(t.h, pool)
             ow == PoolOutputSize(t.w, pool)
         IN  IF oh < 1 \/ ow < 1 THEN Err("pool")
             ELSE Tensor(t.n, t.c, oh, ow)

DownFwd(down, t, train) ==
    DoubleConvFwd(down.conv, MaxPool2dFwd(down.pool, t), train)

UpsampleFwd(up, t) ==
    Tensor(t.n, t.c, t.h * up.scale_factor, t.w * up.scale_factor)

(* variant: one stride too many *)
ConvTransposeOutputSizeLong(size, ct) == size * ct.stride + ct.kernel_size

ConvTransposeOutputSize(size, ct) == (size - 1) * ct.stride + ct.kernel_size

ConvTranspose2dFwd(ct, t) ==
    IF t.c # ct.in_channels THEN Err("channels")
    ELSE Tensor(t.n, ct.out_channels,
                ConvTransposeOutputSize(t.h, ct), ConvTransposeOutputSize(t.w, ct))

UpLayerFwd(up, t) ==
    IF IsErr(t) THEN t
    ELSE IF up.kind = "Upsample" THEN UpsampleFwd(up, t)
    ELSE ConvTranspose2dFwd(up, t)

(* variant: the same pad on both edges *)
PadAmountsEven(diff) == <<FloorDiv(diff, 2), FloorDiv(diff, 2)>>

(* variant: the quotient is truncated toward zero instead of floored *)
PadAmountsTrunc(diff) ==
    LET q == IF diff >= 0 THEN diff \div 2 ELSE -((-diff) \div 2)
    IN  <<q, diff - q>>

(* <<leading, trailing>> pad of one axis *)
PadAmounts(diff) == <<FloorDiv(diff, 2), diff - FloorDiv(diff, 2)>>

(* F.pad(t, [left, right, top, bottom]); a negative pad crops *)
Pad(t, left, right, top, bottom) ==
    IF t.h + top + bottom < 0 \/ t.w + left + right < 0 THEN Err("pad")
    ELSE Tensor(t.n, t.c, t.h + top + bottom, t.w + left + right)

(* torch.cat([a, b], dim=1) *)
Cat(a, b) ==
    IF IsErr(a) THEN a
    ELSE IF IsErr(b) THEN b
    ELSE IF a.n # b.n \/ a.h # b.h \/ a.w # b.w THEN Err("cat")
    ELSE Tensor(a.n, a.c + b.c, a.h, a.w)

(* Up.forward, with the intermediate sizes it computes *)
UpApply(up, a, b, train) ==
    LET u == UpLayerFwd(up.up, a)
    IN  IF IsErr(u) THEN [out |-> u]
        ELSE LET diff_y == b.h - u.h
                 diff_x == b.w - u.w
                 py == PadAmounts(diff_y)
                 px == PadAmounts(diff_x)
                 p == Pad(u, px[1], px[2], py[1], py[2])
             IN  [out |-> DoubleConvFwd(up.conv, Cat(b, p), train),
                  up_h |-> u.h, up_w |-> u.w, up_c |-> u.c,
                  skip_h |-> b.h, skip_w |-> b.w, skip_c |-> b.c,
                  diff_y |-> diff_y, diff_x |-> diff_x,
                  left |-> px[1], right |-> px[2],
                  top |-> py[1], bottom |-> py[2],
                  padded |-> p]

UpFwd(up, a, b, train) == UpApply(up, a, b, train).out

OutConvFwd(oc, t) == Conv2dFwd(oc.conv, t)

(* UNet.forward as one function of the input *)
Forward(m, t, train) ==
    LET a1 == DoubleConvFwd(m.in_conv, t, train)
        a2 == DownFwd(m.down1, a1, train)
        a3 == DownFwd(m.down2, a2, train)
        a4 == DownFwd(m.down3, a3, train)
        a5 == DownFwd(m.down4, a4, train)
        u1 == IF IsErr(a5) THEN a5 ELSE UpFwd(m.up1, a5, a4, train)
        u2 == IF IsErr(u1) THEN u1 ELSE UpFwd(m.up2, u1, a3, train)
        u3 == IF IsErr(u2) THEN u2 ELSE UpFwd(m.up3, u2, a2, train)
        u4 == IF IsErr(u3) THEN u3 ELSE UpFwd(m.up4, u3, a1, train)
    IN  OutConvFwd(m.out_conv, u4)

(* ------------------------------ state -------------------------------- *)
Order == <<"in_conv", "down1", "down2", "down3", "down4",
           "up1", "up2", "up3", "up4", "out_conv">>

Configs ==
    {UNet(ic, nc, bl, bc) : ic \in 1..MaxInChannels, nc \in 1..MaxClasses,
                            bl \in BOOLEAN, bc \in 1..MaxBaseC}

(* after UNet.__init__: the graph is built, in training mode, no call running *)
Init ==
    /\ net \in Configs
    /\ training = TRUE
    /\ pc = "idle"
    /\ xin = None /\ x1 = None /\ x2 = None /\ x3 = None /\ x4 = None
    /\ x5 = None /\ x = None /\ logits = None
    /\ err = "none"
    /\ trace = <<>>
    /\ uplog = <<>>
    /\ poollog = <<>>

(* nn.Module.eval() / nn.Module.train(), between calls *)
Eval ==
    /\ pc = "idle"
    /\ training' = FALSE
    /\ UNCHANGED <<net, pc, xin, x1, x2, x3, x4, x5, x, logits, err, trace,
                   uplog, poollog>>

Train ==
    /\ pc = "idle"
    /\ training' = TRUE
    /\ UNCHANGED <<net, pc, xin, x1, x2, x3, x4, x5, x, logits, err, trace,
                   uplog, poollog>>

(* UNet.forward is entered with an input of the configured channel count *)
Call ==
    /\ pc = "idle"
    /\ \E n \in 1..MaxBatch, h \in 1..MaxH, w \in 1..MaxW :
           xin' = Tensor(n, net.in_channels, h, w)
    /\ pc' = "in_conv"
    /\ UNCHANGED <<net, training, x1, x2, x3, x4, x5, x, logits, err, trace,
                   uplog, poollog>>

(* pc and err after a block application that produced r *)
Advance(block, r, next) ==
    /\ trace' = Append(trace, block)
    /\ IF IsErr(r)
       THEN pc' = "error" /\ err' = r.err
       ELSE pc' = next /\ err' = err

InConv ==
    /\ pc = "in_conv"
    /\ LET r == DoubleConvFwd(net.in_conv, xin, training)
       IN  /\ Advance("in_conv", r, "down1")
           /\ x1' = IF IsErr(r) THEN x1 ELSE r
    /\ UNCHANGED <<net, training, xin, x2, x3, x4, x5, x, logits, uplog, poollog>>

PoolSizes(down, t) ==
    [h |-> PoolOutputSize(t.h, down.pool), w |-> PoolOutputSize(t.w, down.pool)]

Down1 ==
    /\ pc = "down1"
    /\ LET r == DownFwd(net.down1, x1, training)
       IN  /\ Advance("down1", r, "down2")
           /\ x2' = IF IsErr(r) THEN x2 ELSE r
    /\ poollog' = Append(poollog, PoolSizes(net.down1, x1))
    /\ UNCHANGED <<net, training, xin, x1, x3, x4, x5, x, logits, uplog>>

Down2 ==
    /\ pc = "down2"
    /\ LET r == DownFwd(net.down2, x2, training)
       IN  /\ Advance("down2", r, "down3")
           /\ x3' = IF IsErr(r) THEN x3 ELSE r
    /\ poollog' = Append(poollog, PoolSizes(net.down2, x2))
    /\ UNCHANGED <<net, training, xin, x1, x2, x4, x5, x, logits, uplog>>

Down3 ==
    /\ pc = "down3"
    /\ LET r == DownFwd(net.down3, x3, training)
       IN  /\ Advance("down3", r, "down4")
           /\ x4' = IF IsErr(r) THEN x4 ELSE r
    /\ poollog' = Append(poollog, PoolSizes(net.down3, x3))
    /\ UNCHANGED <<net, training, xin, x1, x2, x3, x5, x, logits, uplog>>

Down4 ==
    /\ pc = "down4"
    /\ LET r == DownFwd(net.down4, x4, training)
       IN  /\ Advance("down4", r, "up1")
           /\ x5' = IF IsErr(r) THEN x5 ELSE r
    /\ poollog' = Append(poollog, PoolSizes(net.down4, x4))
    /\ UNCHANGED <<net, training, xin, x1, x2, x3, x4, x, logits, uplog>>

(* x = self.upK(deep, skip): the decoder state x is replaced by the result *)
UpStep(stage, block, deep, skip, deepName, skipName, next) ==
    LET r == UpApply(block, deep, skip, training)
    IN  /\ Advance(stage, r.out, next)
        /\ x' = IF IsErr(r.out) THEN x ELSE r.out
        /\ uplog' = Append(uplog, [stage |-> stage, deep |-> deepName,
                                   skip |-> skipName, info |-> r])

Up1 ==
    /\ pc = "up1"
    /\ UpStep("up1", net.up1, x5, x4, "x5", "x4", "up2")
    /\ UNCHANGED <<net, training, xin, x1, x2, x3, x4, x5, logits, poollog>>

(* variant: up2 is handed x2 instead of x3 *)
Up2TakesX2 ==
    /\ pc = "up2"
    /\ UpStep("up2", net.up2, x, x2, "x", "x2", "up3")
    /\ UNCHANGED <<net, training, xin, x1, x2, x3, x4, x5, logits, poollog>>

Up2 ==
    /\ pc = "up2"
    /\ UpStep("up2", net.up2, x, x3, "x", "x3", "up3")
    /\ UNCHANGED <<net, training, xin, x1, x2, x3, x4, x5, logits, poollog>>

Up3 ==
    /\ pc = "up3"
    /\ UpStep("up3", net.up3, x, x2, "x", "x2", "up4")
    /\ UNCHANGED <<net, training, xin, x1, x2, x3, x4, x5, logits, poollog>>

Up4 ==
    /\ pc = "up4"
    /\ UpStep("up4", net.up4, x, x1, "x", "x1", "out_conv")
    /\ UNCHANGED <<net, training, xin, x1, x2, x3, x4, x5, logits, poollog>>

OutConvStep ==
    /\ pc = "out_conv"
    /\ LET r == OutConvFwd(net.out_conv, x)
       IN  /\ Advance("out_conv", r, "done")
           /\ logits' = IF IsErr(r) THEN logits ELSE r
    /\ UNCHANGED <<net, training, xin, x1, x2, x3, x4, x5, x, uplog, poollog>>

(* the call returns logits, or the library's exception reaches the caller; *)
(* the tensors of the call are dropped                                    *)
Return ==
    /\ pc \in {"done", "error"}
    /\ pc' = "idle"
    /\ xin' = None /\ x1' = None /\ x2' = None /\ x3' = None /\ x4' = None
    /\ x5' = None /\ x' = None /\ logits' = None
    /\ err' = "none"
    /\ trace' = <<>>
    /\ uplog' = <<>>
    /\ poollog' = <<>>
    /\ UNCHANGED <<net, training>>

Next ==
    \/ Eval \/ Train \/ Call
    \/ InConv \/ Down1 \/ Down2 \/ Down3 \/ Down4
    \/ Up1 \/ Up2 \/ Up3 \/ Up4 \/ OutConvStep
    \/ Return

Spec == Init /\ [][Next]_vars

(* An Up block called on its own: up1 of a graph applied to a deep tensor *)
(* and a skip tensor of arbitrary spatial sizes                           *)
InitUp ==
    /\ net \in Configs
    /\ training \in BOOLEAN
    /\ pc = "up1"
    /\ \E n \in 1..MaxBatch, h1 \in 1..MaxDeep, w1 \in 1..MaxDeep,
          h2 \in 1..MaxSkip, w2 \in 1..MaxSkip :
           /\ x5 = Tensor(n, net.down4.conv.conv2.out_channels, h1, w1)
           /\ x4 = Tensor(n, net.down3.conv.conv2.out_channels, h2, w2)
    /\ xin = None /\ x1 = None /\ x2 = None /\ x3 = None
    /\ x = None /\ logits = None
    /\ err = "none"
    /\ trace = <<>>
    /\ uplog = <<>>
    /\ poollog = <<>>

NextUp == Up1

SpecUp == InitUp /\ [][NextUp]_vars

(* ============================ properties ============================= *)
Terminal == pc \in {"done", "error"}
Mult16(t) == t.h % 16 = 0 /\ t.w % 16 = 0
Positive(t) == t.h >= 1 /\ t.w >= 1
IsPrefix(s, t) ==
    Len(s) <= Len(t) /\ \A i \in 1..Len(s) : s[i] = t[i]
(* the tensor a name of UNet.forward is bound to *)
Named(name) ==
    CASE name = "x1" -> x1 [] name = "x2" -> x2 [] name = "x3" -> x3
      [] name = "x4" -> x4 [] name = "x5" -> x5 [] OTHER -> x
(* size n is halved, rounding down, to m *)
IsFloorHalf(m, n) == 2 * m <= n /\ n <= 2 * m + 1
(* q is the floor of d / 2 *)
IsFloorOfHalf(q, d) == 2 * q <= d /\ d < 2 * q + 2

(* C1 as stated: for an input whose H and W are multiples of 16, a call of *)
(* UNet.forward returns a tensor of shape (N, num_classes, H, W), whatever *)
(* the batch size and the configuration.                                   *)
C1_Original ==
    (Terminal /\ Mult16(xin)) =>
        /\ pc = "done"
        /\ logits = Tensor(xin.n, net.num_classes, xin.h, xin.w)

(* C1 (amended): for an input whose H and W are multiples of 16, forward   *)
(* returns shape (N, num_classes, H, W), unless the module is in training  *)
(* mode and N * (H/16) * (W/16) = 1: then the batch normalisation of down4 *)
(* sees one value per channel and the library raises.                      *)
C1_OutputShape ==
    (Terminal /\ Mult16(xin)) =>
        IF training /\ xin.n * (xin.h \div 16) * (xin.w \div 16) = 1
        THEN pc = "error" /\ err = "batch_norm" /\ Len(trace) = 5
        ELSE /\ pc = "done"
             /\ logits = Tensor(xin.n, net.num_classes, xin.h, xin.w)

C1_Witness ==
    /\ pc = "done" /\ training
    /\ Mult16(xin) /\ xin.h = 32
    /\ logits = Tensor(xin.n, net.num_classes, xin.h, xin.w)

(* C2: for an input whose H or W is not a multiple of 16, the output of    *)
(* each decoder stage up1..up4 has the height and width of the skip tensor *)
(* passed to it (x4, x3, x2, x1), and the final output has the input's H   *)
(* and W.                                                                  *)
C2_SkipSize ==
    (IsTensor(xin) /\ ~Mult16(xin)) =>
        /\ \A i \in 1..Len(uplog) :
               LET e == uplog[i]
                   skip == Named(<<"x4", "x3", "x2", "x1">>[i])
               IN  /\ IsTensor(e.info.out)
                   /\ e.info.out.h = skip.h
                   /\ e.info.out.w = skip.w
        /\ pc = "done" => (logits.h = xin.h /\ logits.w = xin.w)

C2_Witness ==
    /\ pc = "done"
    /\ xin.h = 23 /\ xin.w = 18
    /\ \E i \in 1..Len(uplog) : uplog[i].info.diff_y = 1
    /\ logits.h = 23 /\ logits.w = 18

(* C3: no block sees a channel mismatch: each Down block, each Up block's  *)
(* ConvBlock (fed the skip's channels plus the upsampled deep tensor's)    *)
(* and the OutputBlock receives the input channel count it was built with, *)
(* and the output has num_classes channels.                                *)
C3_Channels ==
    /\ err # "channels"
    /\ IsTensor(xin) => xin.c = net.in_conv.conv1.in_channels
    /\ IsTensor(x1) => x1.c = net.down1.conv.conv1.in_channels
    /\ IsTensor(x2) => x2.c = net.down2.conv.conv1.in_channels
    /\ IsTensor(x3) => x3.c = net.down3.conv.conv1.in_channels
    /\ IsTensor(x4) => x4.c = net.down4.conv.conv1.in_channels
    /\ \A i \in 1..Len(uplog) :
           LET e == uplog[i].info
               block == <<net.up1, net.up2, net.up3, net.up4>>[i]
           IN  /\ IsTensor(e.out)
               /\ e.skip_c + e.up_c = block.conv.conv1.in_channels
               /\ e.out.c = block.conv.conv2.out_channels
    /\ Len(uplog) = 4 => x.c = net.out_conv.conv.in_channels
    /\ pc = "done" => logits.c = net.num_classes

C3_Witness ==
    /\ pc = "done"
    /\ net.bilinear /\ net.base_c = 1 /\ net.num_classes = 2
    /\ logits.c = 2

(* C4: two graphs that differ only in the bilinear flag give, for the same *)
(* input, the same output shape (and the call of one is aborted exactly    *)
(* when the call of the other is), and their learnable parameter counts    *)
(* differ.                                                                 *)
C4_FlagSwap ==
    IsTensor(xin) =>
        LET other == UNet(net.in_channels, net.num_classes, ~net.bilinear,
                          net.base_c)
            r == Forward(other, xin, training)
        IN  /\ pc = "done" => r = logits
            /\ pc = "error" => r = Err(err)
            /\ UNetParams(other) # UNetParams(net)

C4_Witness ==
    /\ pc = "done"
    /\ net.bilinear
    /\ xin.h = 16 /\ xin.w = 16
    /\ UNetParams(net) < UNetParams(UNet(net.in_channels, net.num_classes,
                                         FALSE, net.base_c))

(* C5: in Up.forward, on each axis, the leading pad is floor(diff / 2) and *)
(* the trailing pad diff - floor(diff / 2), with diff the skip's size      *)
(* minus the upsampled tensor's; the padded tensor has the skip's size;    *)
(* the trailing pad is one more than the leading pad when diff is odd and  *)
(* equal to it when diff is even.                                          *)
C5_PadSplit ==
    \A i \in 1..Len(uplog) :
        LET e == uplog[i].info
        IN  /\ e.diff_y = e.skip_h - e.up_h
            /\ e.diff_x = e.skip_w - e.up_w
            /\ IsFloorOfHalf(e.top, e.diff_y)
            /\ IsFloorOfHalf(e.left, e.diff_x)
            /\ e.bottom = e.diff_y - e.top
            /\ e.right = e.diff_x - e.left
            /\ e.padded = Tensor(x5.n, e.up_c, e.skip_h, e.skip_w)
            /\ e.bottom = (IF e.diff_y % 2 = 1 THEN e.top + 1 ELSE e.top)
            /\ e.right = (IF e.diff_x % 2 = 1 THEN e.left + 1 ELSE e.left)

C5_Witness ==
    /\ Len(uplog) = 1
    /\ uplog[1].info.diff_y = -3 /\ uplog[1].info.top = -2
    /\ uplog[1].info.diff_x = 5 /\ uplog[1].info.right = 3

(* C6 as stated: each of down1..down4 outputs twice the channel count of   *)
(* its input (widths base_c, 2, 4, 8, 16 times base_c) and the decoder     *)
(* state has 8, 4, 2, 1 times base_c channels after up1..up4, for both     *)
(* upsampling strategies.                                                  *)
C6_Original ==
    /\ IsTensor(x1) => x1.c = net.base_c
    /\ IsTensor(x2) => x2.c = 2 * x1.c
    /\ IsTensor(x3) => x3.c = 2 * x2.c
    /\ IsTensor(x4) => x4.c = 2 * x3.c
    /\ IsTensor(x5) => x5.c = 2 * x4.c
    /\ \A i \in 1..Len(uplog) :
           /\ IsTensor(uplog[i].info.out)
           /\ uplog[i].info.out.c =
                  <<8 * net.base_c, 4 * net.base_c, 2 * net.base_c,
                    net.base_c>>[i]

(* C6 (amended): down1..down3 double the channel count (base_c, 2, 4, 8    *)
(* times base_c); down4 outputs 16 * base_c with transposed convolution    *)
(* and 8 * base_c (no doubling) with bilinear upsampling; the decoder      *)
(* state has 8, 4, 2, 1 times base_c channels after up1..up4 with          *)
(* transposed convolution and 4, 2, 1, 1 times base_c with bilinear.       *)
C6_Widths ==
    /\ IsTensor(x1) => x1.c = net.base_c
    /\ IsTensor(x2) => x2.c = 2 * x1.c
    /\ IsTensor(x3) => x3.c = 2 * x2.c
    /\ IsTensor(x4) => x4.c = 2 * x3.c
    /\ IsTensor(x5) => x5.c = (IF net.bilinear THEN x4.c ELSE 2 * x4.c)
    /\ \A i \in 1..Len(uplog) :
           /\ IsTensor(uplog[i].info.out)
           /\ uplog[i].info.out.c =
                  (IF net.bilinear
                   THEN <<4 * net.base_c, 2 * net.base_c, net.base_c,
                          net.base_c>>[i]
                   ELSE <<8 * net.base_c, 4 * net.base_c, 2 * net.base_c,
                          net.base_c>>[i])

C6_Witness ==
    /\ pc = "done"
    /\ net.bilinear /\ net.base_c = 2
    /\ x5.c = 16 /\ x4.c = 16
    /\ uplog[1].info.out.c = 8 /\ uplog[4].info.out.c = 2

(* the input, the output and the block of the k-th Down stage *)
DownIn(k) == <<x1, x2, x3, x4>>[k]
DownOut(k) == <<x2, x3, x4, x5>>[k]
DownBlock(k) == <<net.down1, net.down2, net.down3, net.down4>>[k]
DownApplied(k) == Len(trace) >= k + 1

(* C7 as stated: a Down block applied to (N, C_in, H, W) produces          *)
(* (N, C_out, floor(H/2), floor(W/2)), an odd dimension losing its last    *)
(* row or column, and no error is raised.                                  *)
C7_Original ==
    \A k \in 1..4 :
        DownApplied(k) =>
            /\ IsTensor(DownOut(k))
            /\ DownOut(k).n = DownIn(k).n
            /\ DownOut(k).c = DownBlock(k).conv.conv2.out_channels
            /\ IsFloorHalf(DownOut(k).h, DownIn(k).h)
            /\ IsFloorHalf(DownOut(k).w, DownIn(k).w)

(* C7 (amended): a Down block applied to (N, C_in, H, W) with H, W >= 2    *)
(* produces (N, C_out, floor(H/2), floor(W/2)), unless the module is in    *)
(* training mode and N * floor(H/2) * floor(W/2) = 1 (batch normalisation  *)
(* raises); for H = 1 or W = 1 the pooling operator raises.                *)
C7_DownHalves ==
    \A k \in 1..4 :
        DownApplied(k) =>
            LET i == DownIn(k)
                o == DownOut(k)
            IN  IF i.h = 1 \/ i.w = 1
                THEN /\ o = None
                     /\ pc = "error" /\ err = "pool" /\ Len(trace) = k + 1
                ELSE IF training /\ i.n = 1 /\ i.h \in {2, 3} /\ i.w \in {2, 3}
                THEN /\ o = None
                     /\ pc = "error" /\ err = "batch_norm"
                     /\ Len(trace) = k + 1
                ELSE /\ IsTensor(o)
                     /\ o.n = i.n
                     /\ o.c = DownBlock(k).conv.conv2.out_channels
                     /\ IsFloorHalf(o.h, i.h)
                     /\ IsFloorHalf(o.w, i.w)

C7_Witness ==
    /\ DownApplied(4)
    /\ x4.h = 3 /\ x4.w = 2
    /\ IsTensor(x5) /\ x5.h = 1 /\ x5.w = 1

(* the skip tensors are consumed in the reverse of the order of production *)
SkipOrder ==
    \A i \in 1..Len(uplog) :
        LET e == uplog[i]
        IN  /\ e.stage = Order[5 + i] /\ trace[5 + i] = e.stage
            /\ e.deep = (IF i = 1 THEN "x5" ELSE "x")
            /\ e.skip = <<"x4", "x3", "x2", "x1">>[i]
            /\ e.info.skip_h = Named(e.skip).h
            /\ e.info.skip_w = Named(e.skip).w
            /\ e.info.skip_c = Named(e.skip).c
            /\ \E j \in 1..4 : j < 5 + i /\ trace[j] = Order[5 - i]
            /\ \A j \in 1..Len(uplog) : j # i => uplog[j].skip # e.skip

(* C8 as stated: every call of UNet.forward executes the ten block         *)
(* applications in_conv, down1..down4, up1..up4, out_conv, whatever the    *)
(* input's shape, consuming the skip tensors in reverse order.             *)
C8_Original ==
    Terminal => (trace = Order /\ Len(uplog) = 4 /\ SkipOrder)

(* C8 (amended): every call of UNet.forward that returns executes the ten  *)
(* block applications in_conv, down1..down4, up1..up4, out_conv in this    *)
(* order; a call the tensor library aborts (pooling to size 0, or batch    *)
(* normalisation of one value per channel in training mode) executes a     *)
(* prefix of it ending in the encoder. The decoder is seeded with down4's  *)
(* output and up1..up4 consume x4, x3, x2, x1, each after it was produced  *)
(* and each once.                                                          *)
C8_FixedSequence ==
    /\ IsPrefix(trace, Order)
    /\ pc \notin {"idle", "done", "error"} => pc = Order[Len(trace) + 1]
    /\ pc = "done" => (trace = Order /\ Len(uplog) = 4)
    /\ pc = "error" => (Len(trace) <= 5 /\ err \in {"pool", "batch_norm"})
    /\ Len(uplog) = (IF Len(trace) > 5 THEN Len(trace) - 5 ELSE 0)
       \/ Len(uplog) = 4
    /\ SkipOrder

C8_Witness ==
    /\ pc = "done"
    /\ trace = Order
    /\ uplog[1].deep = "x5" /\ uplog[1].skip = "x4" /\ uplog[4].skip = "x1"

(* C9: for an input with H, W >= 16, at each decoder stage and on each     *)
(* axis, diff = size(skip) - size(upsampled deep tensor) is 0 or 1, and is *)
(* 1 exactly when the skip's size is odd; it is never negative, so the     *)
(* padding never crops.                                                    *)
C9_DiffZeroOrOne ==
    (IsTensor(xin) /\ xin.h >= 16 /\ xin.w >= 16) =>
        \A i \in 1..Len(uplog) :
            LET e == uplog[i].info
            IN  /\ e.diff_y \in {0, 1}
                /\ e.diff_x \in {0, 1}
                /\ (e.diff_y = 1) <=> (e.skip_h % 2 = 1)
                /\ (e.diff_x = 1) <=> (e.skip_w % 2 = 1)
                /\ e.left >= 0 /\ e.right >= 0 /\ e.top >= 0 /\ e.bottom >= 0

C9_Witness ==
    /\ pc = "done"
    /\ ~net.bilinear
    /\ xin.h = 31 /\ xin.w = 16
    /\ \A i \in 1..4 : uplog[i].info.diff_y = 1 /\ uplog[i].info.diff_x = 0

(* every intermediate tensor of the call exists, with height and width >= 1 *)
AllProduced ==
    /\ IsTensor(x1) /\ IsTensor(x2) /\ IsTensor(x3) /\ IsTensor(x4)
    /\ IsTensor(x5)
    /\ Positive(x1) /\ Positive(x2) /\ Positive(x3) /\ Positive(x4)
    /\ Positive(x5)
    /\ Len(uplog) = 4
    /\ \A i \in 1..4 : IsTensor(uplog[i].info.out) /\ Positive(uplog[i].info.out)

(* C10 as stated: a call produces every intermediate tensor (x1..x5, the   *)
(* decoder states) with height and width >= 1 if and only if H >= 16 and   *)
(* W >= 16; for H < 16 or W < 16 a pooling stage, the fourth or an earlier *)
(* one, yields a dimension of 0.                                           *)
C10_Original ==
    Terminal =>
        /\ AllProduced <=> (xin.h >= 16 /\ xin.w >= 16)
        /\ (xin.h < 16 \/ xin.w < 16) =>
               \E k \in 1..Len(poollog) : poollog[k].h = 0 \/ poollog[k].w = 0

(* C10 (amended): a call produces every intermediate tensor, each with     *)
(* height and width >= 1, if and only if H >= 16 and W >= 16 and not       *)
(* (training mode, N = 1, H < 32 and W < 32). For H < 16 or W < 16 the     *)
(* call is aborted in the encoder by the tensor library, not by a check of *)
(* the module: a pooling stage calculates an output size of 0 and raises,  *)
(* or, in training mode with N = 1, a batch normalisation sees one value   *)
(* per channel. No tensor with a dimension of 0 is ever produced.          *)
C10_MinSize ==
    /\ \A t \in {x1, x2, x3, x4, x5, x, logits} : IsTensor(t) => Positive(t)
    /\ \A k \in 1..Len(poollog) :
           k < Len(poollog) => (poollog[k].h >= 1 /\ poollog[k].w >= 1)
    /\ Terminal =>
           /\ (pc = "done" /\ AllProduced) <=>
                  /\ xin.h >= 16 /\ xin.w >= 16
                  /\ ~(training /\ xin.n = 1 /\ xin.h < 32 /\ xin.w < 32)
           /\ (xin.h < 16 \/ xin.w < 16) =>
                  /\ pc = "error" /\ Len(trace) <= 5
                  /\ \/ /\ err = "pool"
                        /\ Len(poollog) >= 1
                        /\ \/ poollog[Len(poollog)].h = 0
                           \/ poollog[Len(poollog)].w = 0
                     \/ /\ err = "batch_norm"
                        /\ training /\ xin.n = 1

C10_Witness ==
    /\ pc = "error" /\ err = "pool"
    /\ xin.h = 15 /\ xin.w = 16
    /\ Len(trace) = 5
    /\ poollog[4] = [h |-> 0, w |-> 1]

=============================================================================
